---------------------------- MODULE Spec2Model ----------------------------
(***************************************************************************)
(* Point-in-polygon engine (src/src/lib.rs): the registry built by         *)
(* Engine::new, the single query pip_1, the sequential batch pip_n and the *)
(* data-parallel batch pip_n_threaded.                                     *)
(***************************************************************************)
EXTENDS Integers, Sequences, FiniteSets, TLC

(***************************************************************************)
(* Machine integers.  A usize is kept as two 16-bit limbs, value           *)
(* hi * 2^16 + lo, so that lengths above i32::MAX can be written down and  *)
(* the cast `index as i32` can be computed as the truncation it is.        *)
(***************************************************************************)
I32_MAX == 2147483647

Limb == 2^16

U(n) == [hi |-> n \div Limb, lo |-> n % Limb]

UAdd(a, b) ==
    LET s == a.lo + b.lo
    IN  [hi |-> a.hi + b.hi + (s \div Limb), lo |-> s % Limb]

UGt(a, b) == a.hi > b.hi \/ (a.hi = b.hi /\ a.lo > b.lo)

\* `n as i32`: keep the low 32 bits, read them as two's complement.
AsI32(a) ==
    LET h == a.hi % Limb
    IN  IF h >= Limb \div 2 THEN (h - Limb) * Limb + a.lo ELSE h * Limb + a.lo

(***************************************************************************)
(* Vectors.  A Vec is a sequence of runs [item, count]: `count` copies of  *)
(* `item` in a row.  Short vectors have one run per element; the run form  *)
(* lets a vector of more than i32::MAX elements be a value of the model.   *)
(***************************************************************************)
Run(item, count) == [item |-> item, count |-> count]

One == U(1)

RECURSIVE VecLen(_)
VecLen(v) ==
    IF v = <<>> THEN U(0) ELSE UAdd(v[1].count, VecLen(Tail(v)))

\* Index of the first element of run k.
RECURSIVE RunStart(_, _)
RunStart(v, k) ==
    IF k = 1 THEN U(0) ELSE UAdd(RunStart(v, k - 1), v[k - 1].count)

\* A vector with one run per element.
RECURSIVE VecOf(_)
VecOf(s) ==
    IF s = <<>> THEN <<>> ELSE <<Run(Head(s), One)>> \o VecOf(Tail(s))

(***************************************************************************)
(* Geometry.  geo_types::Geometry<f64> values on an integer grid; a        *)
(* coordinate is [x |-> longitude, y |-> latitude].                        *)
(***************************************************************************)
Coord(lat, lon) == [x |-> lon, y |-> lat]

Polygon(ext, holes) == [kind |-> "Polygon", exterior |-> ext, interiors |-> holes]

MultiPolygon(ps) == [kind |-> "MultiPolygon", polygons |-> ps]

LineString(cs) == [kind |-> "LineString", coords |-> cs]

\* The edge from a to b is crossed by the ray from pt toward increasing
\* longitude: the endpoint latitudes straddle pt's latitude (one strictly
\* above, the other below or equal) and the intersection longitude is
\* greater than pt's longitude.
EdgeCrossed(a, b, pt) ==
    /\ (a.y > pt.y) # (b.y > pt.y)
    /\ IF b.y > a.y
          THEN (pt.x - a.x) * (b.y - a.y) < (pt.y - a.y) * (b.x - a.x)
          ELSE (pt.x - a.x) * (b.y - a.y) > (pt.y - a.y) * (b.x - a.x)

\* Even-odd rule over the closed ring (the last edge wraps to the first vertex).
ring_contains(ring, pt) ==
    LET n == Len(ring)
        crossed == {i \in 1..n : EdgeCrossed(ring[i], ring[(i % n) + 1], pt)}
    IN  n >= 3 /\ Cardinality(crossed) % 2 = 1

polygon_contains(poly, pt) ==
    /\ ring_contains(poly.exterior, pt)
    /\ \A h \in 1..Len(poly.interiors) : ~ring_contains(poly.interiors[h], pt)

\* pt lies on the segment from a to b.
OnSegment(a, b, pt) ==
    /\ (pt.x - a.x) * (b.y - a.y) = (pt.y - a.y) * (b.x - a.x)
    /\ (a.x <= pt.x /\ pt.x <= b.x) \/ (b.x <= pt.x /\ pt.x <= a.x)
    /\ (a.y <= pt.y /\ pt.y <= b.y) \/ (b.y <= pt.y /\ pt.y <= a.y)

\* geo's Contains<Point> for a Geometry, by kind.
Contains(g, pt) ==
    CASE g.kind = "Polygon" -> polygon_contains(g, pt)
      [] g.kind = "MultiPolygon" ->
            \E k \in 1..Len(g.polygons) : polygon_contains(g.polygons[k], pt)
      [] g.kind = "LineString" ->
            \E k \in 1..(Len(g.coords) - 1) : OnSegment(g.coords[k], g.coords[k + 1], pt)


(***************************************************************************)
(* The shapes the payloads carry.                                          *)
(***************************************************************************)
\* Exterior ring of the square (0,0),(0,10),(10,10),(10,0), as (lat, lon).
SquareRing == <<Coord(0, 0), Coord(0, 10), Coord(10, 10), Coord(10, 0)>>

\* A triangular hole inside the square; (5,5) is inside it, (1,1) is not.
TriangleRing == <<Coord(3, 3), Coord(3, 8), Coord(9, 3)>>

SquareWithHole == Polygon(SquareRing, <<TriangleRing>>)

\* A larger square that covers the first one, hole included.
BigSquare ==
    Polygon(<<Coord(-1, -1), Coord(-1, 30), Coord(30, 30), Coord(30, -1)>>, <<>>)

NearSquare == Polygon(<<Coord(0, 0), Coord(0, 2), Coord(2, 2), Coord(2, 0)>>, <<>>)

FarSquare ==
    Polygon(<<Coord(19, 19), Coord(19, 21), Coord(21, 21), Coord(21, 19)>>, <<>>)

TwoSquares == MultiPolygon(<<NearSquare, FarSquare>>)

Diagonal == LineString(<<Coord(0, 0), Coord(30, 30)>>)

(***************************************************************************)
(* Payloads: GeoJSON strings, written as the document they hold.           *)
(***************************************************************************)
Malformed == [json |-> "malformed"]

\* A document that parses but that quick_collection cannot convert.
Unconvertible == [json |-> "unconvertible"]

GeometryDoc(g) == [json |-> "Geometry", geometry |-> g]

FeatureDoc(g) == [json |-> "Feature", geometry |-> g]

FeatureCollectionDoc(gs) == [json |-> "FeatureCollection", features |-> gs]

Payloads ==
    { Malformed,
      Unconvertible,
      FeatureDoc(SquareWithHole),
      GeometryDoc(BigSquare),
      FeatureCollectionDoc(<<NearSquare, FarSquare>>),
      FeatureCollectionDoc(<<>>),
      GeometryDoc(TwoSquares),
      GeometryDoc(Diagonal) }

\* str::parse::<GeoJson>() succeeds.
Parses(payload) == payload.json # "malformed"

\* geojson::quick_collection returns Ok.
Converts(payload) == payload.json # "unconvertible"

\* geojson::quick_collection: one geometry for a Geometry or a Feature
\* document, one per feature for a FeatureCollection.
quick_collection(payload) ==
    IF payload.json = "FeatureCollection" THEN payload.features
    ELSE <<payload.geometry>>

(***************************************************************************)
(* Engine::new                                                             *)
(***************************************************************************)
Panic(msg) == [status |-> "panic", msg |-> msg, polygons |-> <<>>]

Built(polys) == [status |-> "ok", msg |-> "", polygons |-> polys]

\* Variant: the count is compared with u32::MAX instead of i32::MAX.
TooMany_u32(geometry) ==
    UGt(VecLen(geometry), [hi |-> Limb - 1, lo |-> Limb - 1])

\* `geometry.len() > i32::MAX as usize`
TooMany(geometry) == UGt(VecLen(geometry), U(I32_MAX))

\* Variant: the one geometry must also be a polygon.
PayloadFault_polygon_only(payload) ==
    IF ~Parses(payload) THEN "Could not decode geojson"
    ELSE IF ~Converts(payload) THEN "Could not create GeometryCollection"
         ELSE IF Len(quick_collection(payload)) # 1
              THEN "Multiple polygons found in one geojson string, not supported"
              ELSE IF quick_collection(payload)[1].kind # "Polygon"
                   THEN "Not a polygon"
                   ELSE ""

\* The checks on one payload; "" when it passes.
PayloadFault(payload) ==
    IF ~Parses(payload) THEN "Could not decode geojson"
    ELSE IF ~Converts(payload) THEN "Could not create GeometryCollection"
         ELSE IF Len(quick_collection(payload)) # 1
              THEN "Multiple polygons found in one geojson string, not supported"
              ELSE ""

\* Variant: best-effort construction, a faulty payload is skipped.
RECURSIVE BuildLoop_skip(_, _)
BuildLoop_skip(geometry, polygons) ==
    IF geometry = <<>> THEN Built(polygons)
    ELSE LET run == Head(geometry)
         IN  IF \/ ~Parses(run.item)
                \/ ~Converts(run.item)
                \/ Len(quick_collection(run.item)) # 1
             THEN BuildLoop_skip(Tail(geometry), polygons)
             ELSE BuildLoop_skip(Tail(geometry),
                                 Append(polygons, Run(quick_collection(run.item)[1], run.count)))

\* The loop over the payloads: the first fault panics, otherwise the
\* collection's only geometry is pushed.
RECURSIVE BuildLoop(_, _)
BuildLoop(geometry, polygons) ==
    IF geometry = <<>> THEN Built(polygons)
    ELSE LET run == Head(geometry)
             fault == PayloadFault(run.item)
         IN  IF fault # "" THEN Panic(fault)
             ELSE BuildLoop(Tail(geometry),
                            Append(polygons, Run(quick_collection(run.item)[1], run.count)))

new(geometry) ==
    IF TooMany(geometry) THEN Panic("Too many input polygons")
    ELSE BuildLoop(geometry, <<>>)

(***************************************************************************)
(* Engine::pip_1                                                           *)
(***************************************************************************)
NoMatch == -1

\* Variant: the last polygon that contains the point wins.
position_last(polygons, pt, k) ==
    LET hits == {j \in k..Len(polygons) : Contains(polygons[j].item, pt)}
    IN  IF hits = {} THEN [found |-> FALSE, index |-> U(0)]
        ELSE [found |-> TRUE,
              index |-> RunStart(polygons, CHOOSE j \in hits : \A i \in hits : i <= j)]

\* Variant: a polygon is tested by its exterior ring alone.
position_exterior_only(polygons, pt, k) ==
    LET hit(g) == IF g.kind = "Polygon" THEN ring_contains(g.exterior, pt)
                  ELSE Contains(g, pt)
        hits == {j \in k..Len(polygons) : hit(polygons[j].item)}
    IN  IF hits = {} THEN [found |-> FALSE, index |-> U(0)]
        ELSE [found |-> TRUE,
              index |-> RunStart(polygons, CHOOSE j \in hits : \A i \in hits : j <= i)]

\* Iterator::position: the index of the first polygon that contains the
\* point, as [found, index].
RECURSIVE position(_, _, _)
position(polygons, pt, k) ==
    IF k > Len(polygons) THEN [found |-> FALSE, index |-> U(0)]
    ELSE IF Contains(polygons[k].item, pt)
         THEN [found |-> TRUE, index |-> RunStart(polygons, k)]
         ELSE position(polygons, pt, k + 1)

pip_1(polygons, lat, lon) ==
    LET result == position(polygons, Coord(lat, lon), 1)
    IN  IF result.found THEN AsI32(result.index) ELSE NoMatch

(***************************************************************************)
(* Engine::pip_n                                                           *)
(***************************************************************************)
\* Variant: only a longer latitude array is refused.
LengthMismatch_longer(lat_array, lon_array) == Len(lat_array) > Len(lon_array)

\* `lat_array.len() != lon_array.len()`
LengthMismatch(lat_array, lon_array) == Len(lat_array) # Len(lon_array)

Returned(ret) == [status |-> "ok", ret |-> ret]

Panicked == [status |-> "panic", ret |-> <<>>]

\* The loop `for n in 0..lat_array.len()`: one pip_1 per coordinate pair,
\* pushed in input order.
pip_n(polygons, lat_array, lon_array) ==
    IF LengthMismatch(lat_array, lon_array) THEN Panicked
    ELSE Returned([n \in 1..Len(lat_array) |->
                      pip_1(polygons, lat_array[n], lon_array[n])])

(***************************************************************************)
(* Engine::pip_n_threaded                                                  *)
(***************************************************************************)
\* The (index, latitude, longitude) tuples built on the calling thread.
Tuples(lat_array, lon_array) ==
    [n \in 1..Len(lat_array) |-> <<n - 1, lat_array[n], lon_array[n]>>]

\* Variant: no filter, every pair is collected.
Keep_all(result) == TRUE

\* `.filter(|(_, result)| *result >= 0)`
Keep(result) == result >= 0

\* Variant: the pairs are written in the order they were collected.
Scatter_arrival(pairs, len) ==
    [i \in 1..len |-> IF i <= Len(pairs) THEN pairs[i][2] ELSE NoMatch]

\* `results.resize(len, -1)`, then `results[n] = result` for each pair.
RECURSIVE Scatter(_, _)
Scatter(pairs, len) ==
    IF pairs = <<>> THEN [i \in 1..len |-> NoMatch]
    ELSE LET last == pairs[Len(pairs)]
         IN  [Scatter(SubSeq(pairs, 1, Len(pairs) - 1), len)
                 EXCEPT ![last[1] + 1] = last[2]]

(***************************************************************************)
(* State                                                                   *)
(***************************************************************************)
VARIABLES
    pc,        \* "start", "failed" (Engine::new panicked), "idle", "par",
               \* "returned" (a query has handed its result to the host)
    geometry,  \* the payload vector Engine::new was given
    engine,    \* what Engine::new produced: [status, msg, polygons]
    call,      \* the query in progress or last made: [op, lat, lon]
    outcome,   \* its result: [status, ret], ret the returned values in order
               \* (one value for pip_1)
    queries,   \* pip_1 evaluations made by that call
    pool,      \* worker threads of the rayon pool
    input,     \* pip_n_threaded: the tuples handed to the pool
    task,      \* pip_n_threaded: per tuple "pending", "running" or "done"
    shuffled   \* pip_n_threaded: the collected (index, result) pairs

vars == <<pc, geometry, engine, call, outcome, queries, pool, input, task, shuffled>>

batch == <<input, task, shuffled>>

(***************************************************************************)
(* Bounds and input sets                                                   *)
(***************************************************************************)
MaxPayloads == 2

MaxLen == 2

MaxWorkers == 2

SeqsUpTo(S, n) == UNION {[1..k -> S] : k \in 0..n}

\* Payload counts around the capacity of the index type.
HugeCounts == {U(I32_MAX - 1), U(I32_MAX), UAdd(U(I32_MAX), One)}

Inputs ==
    {VecOf(s) : s \in SeqsUpTo(Payloads, MaxPayloads)}
    \cup {<<Run(p, c), Run(q, One)>> : p \in Payloads, q \in Payloads, c \in HugeCounts}

\* Coordinates of single queries, none on a ring of the shapes above.
QueryVals == {-3, 1, 4, 5, 6, 9, 12, 20}

\* Coordinates of batch arrays.
ArrayVals == {1, 5}

Arrays == SeqsUpTo(ArrayVals, MaxLen)

NoCall == [op |-> "none", lat |-> <<>>, lon |-> <<>>]

NoOutcome == [status |-> "none", ret |-> <<>>]

(***************************************************************************)
(* Actions                                                                 *)
(***************************************************************************)
New(g) ==
    /\ pc = "start"
    /\ geometry' = g
    /\ engine' = new(g)
    /\ pc' = IF new(g).status = "ok" THEN "idle" ELSE "failed"
    /\ UNCHANGED <<call, outcome, queries, pool, batch>>

Pip1Call(lat, lon) ==
    /\ pc = "idle"
    /\ call' = [op |-> "pip_1", lat |-> <<lat>>, lon |-> <<lon>>]
    /\ outcome' = Returned(<<pip_1(engine.polygons, lat, lon)>>)
    /\ queries' = 1
    /\ pc' = "returned"
    /\ UNCHANGED <<geometry, engine, pool, batch>>

PipNCall(lat_array, lon_array) ==
    /\ pc = "idle"
    /\ call' = [op |-> "pip_n", lat |-> lat_array, lon |-> lon_array]
    /\ outcome' = pip_n(engine.polygons, lat_array, lon_array)
    /\ queries' = IF outcome'.status = "ok" THEN Len(lat_array) ELSE 0
    /\ pc' = "returned"
    /\ UNCHANGED <<geometry, engine, pool, batch>>

\* Entry of pip_n_threaded: the length check, then the tuples.
ParCall(lat_array, lon_array) ==
    /\ pc = "idle"
    /\ call' = [op |-> "pip_n_threaded", lat |-> lat_array, lon |-> lon_array]
    /\ queries' = 0
    /\ IF LengthMismatch(lat_array, lon_array)
          THEN /\ outcome' = Panicked
               /\ input' = <<>>
               /\ task' = <<>>
               /\ pc' = "returned"
          ELSE /\ outcome' = [status |-> "running", ret |-> <<>>]
               /\ input' = Tuples(lat_array, lon_array)
               /\ task' = [n \in 1..Len(lat_array) |-> "pending"]
               /\ pc' = "par"
    /\ shuffled' = <<>>
    /\ UNCHANGED <<geometry, engine, pool>>

Running == {n \in 1..Len(task) : task[n] = "running"}

\* Variant: a tuple waits until the tuple after it (cyclically) is done.
CanStart_after_neighbour(n) ==
    /\ Cardinality(Running) < pool
    /\ task[(n % Len(task)) + 1] = "done"

\* A pending tuple is taken as soon as a worker is free; it waits for no
\* other tuple.
CanStart(n) == Cardinality(Running) < pool

TaskStart(n) ==
    /\ pc = "par"
    /\ n \in 1..Len(task)
    /\ task[n] = "pending"
    /\ CanStart(n)
    /\ task' = [task EXCEPT ![n] = "running"]
    /\ UNCHANGED <<pc, geometry, engine, call, outcome, queries, pool, input, shuffled>>

\* Variant: a hit moves the registry's first polygon to the back.
TaskFinish_reorder(n) ==
    /\ pc = "par"
    /\ n \in 1..Len(task)
    /\ task[n] = "running"
    /\ LET result == pip_1(engine.polygons, input[n][2], input[n][3])
       IN  /\ shuffled' = IF Keep(result) THEN Append(shuffled, <<input[n][1], result>>)
                          ELSE shuffled
           /\ engine' = IF Keep(result) /\ Len(engine.polygons) > 1
                        THEN [engine EXCEPT !.polygons = Tail(@) \o <<Head(@)>>]
                        ELSE engine
    /\ task' = [task EXCEPT ![n] = "done"]
    /\ queries' = queries + 1
    /\ UNCHANGED <<pc, geometry, call, outcome, pool, input>>

\* The map and the filter on one tuple.  The pairs are collected in the
\* order the tasks finish: the code relies on no order (`shuffled`).
TaskFinish(n) ==
    /\ pc = "par"
    /\ n \in 1..Len(task)
    /\ task[n] = "running"
    /\ LET result == pip_1(engine.polygons, input[n][2], input[n][3])
       IN  shuffled' = IF Keep(result) THEN Append(shuffled, <<input[n][1], result>>)
                       ELSE shuffled
    /\ task' = [task EXCEPT ![n] = "done"]
    /\ queries' = queries + 1
    /\ UNCHANGED <<pc, geometry, engine, call, outcome, pool, input>>

AllDone == \A n \in 1..Len(task) : task[n] = "done"

\* collect() has every pair: scatter them and return the array.
ParReturn ==
    /\ pc = "par"
    /\ AllDone
    /\ outcome' = Returned(Scatter(shuffled, Len(call.lat)))
    /\ pc' = "returned"
    /\ UNCHANGED <<geometry, engine, call, queries, pool, input, task, shuffled>>

\* The host takes the result; the call's locals are gone and the engine is
\* ready for the next query.
Continue ==
    /\ pc = "returned"
    /\ pc' = "idle"
    /\ call' = NoCall
    /\ outcome' = NoOutcome
    /\ queries' = 0
    /\ input' = <<>>
    /\ task' = <<>>
    /\ shuffled' = <<>>
    /\ UNCHANGED <<geometry, engine, pool>>

(***************************************************************************)
(* Construction and single queries                                         *)
(***************************************************************************)
Init ==
    /\ pc = "start"
    /\ geometry = <<>>
    /\ engine = [status |-> "none", msg |-> "", polygons |-> <<>>]
    /\ call = NoCall
    /\ outcome = NoOutcome
    /\ queries = 0
    /\ pool = 1
    /\ input = <<>>
    /\ task = <<>>
    /\ shuffled = <<>>

Next ==
    \/ \E g \in Inputs : New(g)
    \/ \E lat \in QueryVals, lon \in QueryVals : Pip1Call(lat, lon)
    \/ Continue

Spec == Init /\ [][Next]_vars

(***************************************************************************)
(* Queries on a built engine                                               *)
(***************************************************************************)
BatchInputs ==
    { VecOf(<<>>),
      VecOf(<<FeatureDoc(SquareWithHole)>>),
      VecOf(<<FeatureDoc(SquareWithHole), GeometryDoc(BigSquare)>>),
      <<Run(GeometryDoc(TwoSquares), U(I32_MAX - 1)), Run(FeatureDoc(SquareWithHole), One)>>,
      <<Run(GeometryDoc(TwoSquares), UAdd(U(I32_MAX), One)), Run(FeatureDoc(SquareWithHole), One)>> }

InitBatch ==
    /\ pc = "idle"
    /\ geometry \in BatchInputs
    /\ engine = new(geometry)
    /\ engine.status = "ok"
    /\ call = NoCall
    /\ outcome = NoOutcome
    /\ queries = 0
    /\ pool \in 1..MaxWorkers
    /\ input = <<>>
    /\ task = <<>>
    /\ shuffled = <<>>

NextBatch ==
    \/ \E lat \in ArrayVals, lon \in ArrayVals : Pip1Call(lat, lon)
    \/ \E lat_array \in Arrays, lon_array \in Arrays : PipNCall(lat_array, lon_array)
    \/ \E lat_array \in Arrays, lon_array \in Arrays : ParCall(lat_array, lon_array)
    \/ \E n \in 1..MaxLen : TaskStart(n)
    \/ \E n \in 1..MaxLen : TaskFinish(n)
    \/ ParReturn
    \/ Continue

SpecBatch == InitBatch /\ [][NextBatch]_vars

FairSpecBatch ==
    /\ SpecBatch
    /\ WF_vars(\E n \in 1..MaxLen : TaskStart(n))
    /\ WF_vars(\E n \in 1..MaxLen : TaskFinish(n))
    /\ WF_vars(ParReturn)

(***************************************************************************)
(* Properties                                                              *)
(***************************************************************************)
BatchReturned ==
    /\ pc = "returned"
    /\ call.op \in {"pip_n", "pip_n_threaded"}
    /\ outcome.status = "ok"

\* C1: for equal-length arrays pip_n_threaded returns the sequence pip_n
\* returns, and both hold pip_1 of the n-th coordinate pair at position n
\* and are as long as the input, whatever the pool size and the order in
\* which the pairs were collected.
C1_OrderPreservation ==
    BatchReturned =>
        /\ outcome = pip_n(engine.polygons, call.lat, call.lon)
        /\ Len(outcome.ret) = Len(call.lat)
        /\ \A n \in 1..Len(call.lat) :
              outcome.ret[n] = pip_1(engine.polygons, call.lat[n], call.lon[n])

\* A parallel batch whose pairs were collected out of input order.
C1_Witness ==
    /\ BatchReturned
    /\ call.op = "pip_n_threaded"
    /\ Len(shuffled) >= 2
    /\ shuffled[1][1] > shuffled[2][1]
    /\ outcome.ret[1] # outcome.ret[2]

Pip1Returned == pc = "returned" /\ call.op = "pip_1"

QueryPoint == Coord(call.lat[1], call.lon[1])

Answer == outcome.ret[1]

\* C2: pip_1 returns the index of the first polygon, in registry order, that
\* contains the point, and -1 exactly when no polygon contains it.
C2_FirstMatch ==
    Pip1Returned =>
        LET polys == engine.polygons
            hits == {k \in 1..Len(polys) : Contains(polys[k].item, QueryPoint)}
        IN  /\ (Answer = NoMatch) <=> (hits = {})
            /\ hits # {} =>
                  \E k \in hits :
                      /\ \A j \in 1..(k - 1) : j \notin hits
                      /\ Answer >= 0
                      /\ U(Answer) = RunStart(polys, k)

\* The larger square is registered first, both squares contain the point,
\* and the answer is index 0.
C2_Witness ==
    /\ Pip1Returned
    /\ Len(engine.polygons) = 2
    /\ engine.polygons[1] = Run(BigSquare, One)
    /\ engine.polygons[2] = Run(SquareWithHole, One)
    /\ Contains(SquareWithHole, QueryPoint)
    /\ Answer = 0

\* v is -1 or an index into the registry.
ValidResult(v) ==
    \/ v = NoMatch
    \/ v >= 0 /\ UGt(VecLen(engine.polygons), U(v))

\* C3: every value pip_1 returns, and every element of a batch output, is
\* -1 or an index i with 0 <= i < registry length; a built registry holds at
\* most i32::MAX polygons, so the cast to i32 never wraps.
C3_IndexBound ==
    /\ engine.status = "ok" => ~UGt(VecLen(engine.polygons), U(I32_MAX))
    /\ (pc = "returned" /\ outcome.status = "ok") =>
          \A n \in 1..Len(outcome.ret) : ValidResult(outcome.ret[n])

\* A registry of exactly i32::MAX polygons answers with its last index.
C3_Witness ==
    /\ BatchReturned
    /\ VecLen(engine.polygons) = U(I32_MAX)
    /\ \E n \in 1..Len(outcome.ret) : outcome.ret[n] = I32_MAX - 1

MismatchedCall ==
    /\ call.op \in {"pip_n", "pip_n_threaded"}
    /\ Len(call.lat) # Len(call.lon)

\* C4: a batch call with arrays of different lengths panics before any
\* work: no pip_1 is evaluated, no tuple is handed to a worker and no result
\* sequence exists.
C4_LengthValidation ==
    MismatchedCall =>
        /\ pc = "returned"
        /\ outcome = Panicked
        /\ queries = 0
        /\ input = <<>>
        /\ task = <<>>
        /\ shuffled = <<>>

C4_Witness ==
    /\ MismatchedCall
    /\ call.op = "pip_n_threaded"
    /\ Len(call.lat) < Len(call.lon)
    /\ outcome.status = "panic"

BuildDone == pc # "start"

\* A payload Engine::new can take: it parses, converts and holds one
\* geometry.
Decodable(payload) ==
    Parses(payload) /\ Converts(payload) /\ Len(quick_collection(payload)) = 1

\* C5: construction is all-or-nothing and keeps positions: when any payload
\* is not decodable, wherever it stands, or there are too many payloads, no
\* registry is produced; otherwise the registry is as long as the payload
\* vector and its i-th polygon is the geometry decoded from payload i.
C5_AtomicOrderedBuild ==
    BuildDone =>
        IF \/ \E k \in 1..Len(geometry) : ~Decodable(geometry[k].item)
           \/ UGt(VecLen(geometry), U(I32_MAX))
        THEN /\ pc = "failed"
             /\ engine.status = "panic"
             /\ engine.polygons = <<>>
        ELSE /\ engine.status = "ok"
             /\ VecLen(engine.polygons) = VecLen(geometry)
             /\ Len(engine.polygons) = Len(geometry)
             /\ \A k \in 1..Len(geometry) :
                   /\ RunStart(engine.polygons, k) = RunStart(geometry, k)
                   /\ engine.polygons[k].count = geometry[k].count
                   /\ engine.polygons[k].item = quick_collection(geometry[k].item)[1]

\* A build that fails on its second payload after a good first one.
C5_Witness ==
    /\ pc = "failed"
    /\ Len(geometry) = 2
    /\ Decodable(geometry[1].item)
    /\ ~Decodable(geometry[2].item)
    /\ engine.polygons = <<>>

\* A payload that is exactly one polygon.
OnePolygon(payload) ==
    /\ Parses(payload)
    /\ Converts(payload)
    /\ Len(quick_collection(payload)) = 1
    /\ quick_collection(payload)[1].kind = "Polygon"

InsideSquare(pt) == 0 < pt.x /\ pt.x < 10 /\ 0 < pt.y /\ pt.y < 10

InsideTriangle(pt) == pt.x > 3 /\ pt.y > 3 /\ 6 * pt.x + 5 * pt.y < 63

\* C7: a polygon matches a point iff the point is inside its exterior ring
\* and inside none of its holes: for a registry of one polygon pip_1
\* answers 0 in that case and -1 otherwise, in particular -1 for a point in
\* a hole; the square with the triangular hole answers [0, -1, -1] for the
\* points (1,1), (5,5), (20,20).
C7_HoleExclusion ==
    /\ pip_n(<<Run(SquareWithHole, One)>>, <<1, 5, 20>>, <<1, 5, 20>>)
          = Returned(<<0, NoMatch, NoMatch>>)
    /\ (/\ Pip1Returned
        /\ Len(engine.polygons) = 1
        /\ engine.polygons[1].item.kind = "Polygon")
          => LET poly == engine.polygons[1].item
                 inExterior == ring_contains(poly.exterior, QueryPoint)
                 inHole == \E h \in 1..Len(poly.interiors) :
                               ring_contains(poly.interiors[h], QueryPoint)
             IN  /\ Answer = IF inExterior /\ ~inHole THEN 0 ELSE NoMatch
                 /\ poly = SquareWithHole =>
                       /\ inExterior <=> InsideSquare(QueryPoint)
                       /\ inHole <=> InsideTriangle(QueryPoint)

\* A point inside the square and inside its hole is not matched.
C7_Witness ==
    /\ Pip1Returned
    /\ engine.polygons = <<Run(SquareWithHole, One)>>
    /\ InsideSquare(QueryPoint)
    /\ InsideTriangle(QueryPoint)
    /\ Answer = NoMatch

\* C8: no query step changes the registry, and a step of a worker task
\* changes nothing but that task's own state and, at most, appends its own
\* (index, result) pair to the collected pairs.
C8_RegistryReadOnly ==
    [][/\ engine' = engine
       /\ geometry' = geometry
       /\ (pc = "par" /\ pc' = "par") =>
             /\ input' = input
             /\ call' = call
             /\ outcome' = outcome
             /\ \E n \in 1..Len(task) :
                   /\ \A m \in 1..Len(task) : m # n => task'[m] = task[m]
                   /\ \/ shuffled' = shuffled
                      \/ shuffled' = Append(shuffled,
                             <<n - 1, pip_1(engine.polygons, call.lat[n], call.lon[n])>>)]_vars

\* Two worker tasks in flight at once, on a registry of two polygons.
C8_Witness ==
    /\ pc = "par"
    /\ Cardinality(Running) >= 2
    /\ Len(engine.polygons) >= 2

\* C9: a parallel batch with equal-length arrays runs to completion: while
\* it runs some task can always make a step or the result can be returned,
\* it returns only when every task is done, and under fair scheduling it
\* eventually returns a result as long as the input.
C9_RunsToCompletion ==
    /\ [](pc = "par" =>
            \/ AllDone
            \/ Running # {}
            \/ \E n \in 1..Len(task) : task[n] = "pending" /\ CanStart(n))
    /\ []((pc = "returned" /\ call.op = "pip_n_threaded" /\ outcome.status = "ok")
             => AllDone /\ Len(task) = Len(call.lat))
    /\ (pc = "par") ~>
          (/\ pc = "returned"
           /\ outcome.status = "ok"
           /\ Len(outcome.ret) = Len(call.lat))

\* A finished batch of more tuples than the pool has workers.
C9_Witness ==
    /\ pc = "returned"
    /\ call.op = "pip_n_threaded"
    /\ outcome.status = "ok"
    /\ Len(outcome.ret) > pool

ParCollected == pc = "par" /\ AllDone

\* How many collected pairs carry position n (zero-based).
PairsAt(n) == Cardinality({k \in 1..Len(shuffled) : shuffled[k][1] = n})

\* C10 as stated: one pair is collected for every input position, no-match
\* included, so there are as many pairs as input points and each position
\* is written once.
C10_AllPairsCollected ==
    ParCollected =>
        /\ Len(shuffled) = Len(input)
        /\ \A n \in 1..Len(input) : PairsAt(n - 1) = 1

\* C10 amended: one pair is collected for every input position whose result
\* is a match and none for a no-match position, each pair carrying pip_1 of
\* its position; the scatter writes the matched positions once each and the
\* others keep the pre-filled -1.
C10_MatchedPairsCollected ==
    /\ \A k \in 1..Len(shuffled) : shuffled[k][2] >= 0
    /\ ParCollected =>
          \A n \in 1..Len(input) :
              LET result == pip_1(engine.polygons, input[n][2], input[n][3])
              IN  /\ PairsAt(n - 1) = IF result >= 0 THEN 1 ELSE 0
                  /\ \A k \in 1..Len(shuffled) :
                        shuffled[k][1] = n - 1 => shuffled[k][2] = result

\* All tasks done, with a matched and an unmatched position.
C10_Witness ==
    /\ ParCollected
    /\ Len(shuffled) >= 1
    /\ Len(shuffled) < Len(input)

=============================================================================
